---------------------------- MODULE Spec2Model ----------------------------
(***************************************************************************)
(* Out-of-core matrix storage (crate ooc): a 64-byte header followed by a   *)
(* contiguous element region in one file, accessed through a shared         *)
(* read/write memory mapping.                                               *)
(*                                                                          *)
(*   dense_matrix.rs  Dense<T>    create, transpose, element_iter,          *)
(*                                element_iter_mut, randomise, Drop         *)
(*   disk_matrix.rs   DiskMatrix  create, Drop                              *)
(*                                                                          *)
(* One run of the model is one handle's life: the path is in some prior     *)
(* state, create is called once, the handle is used and then dropped.       *)
(***************************************************************************)
EXTENDS Integers, Sequences, FiniteSets, TLC

(***************************************************************************)
(* Bounds of the model.                                                     *)
(***************************************************************************)
\* rows and cols passed to create range over 0..MaxDim
MaxDim == 3
\* width in bits of the machine word that stands for u64 / usize
WordBits == 7
\* operations made on one handle between create and drop (transpose calls,
\* iterators created, element writes)
MaxOps == 3
\* next() calls made on an iterator after it has returned None
MaxExtraCalls == 1

(***************************************************************************)
(* Program constants.                                                       *)
(***************************************************************************)
HEADER_SIZE == 64

\* FloatType::get_width (disk_matrix.rs); mem::size_of::<f32>() for Dense<f32>
get_width(repr) == IF repr = "Single" THEN 4 ELSE 8

FloatTypes == {"Single", "Double"}

\* impl SupportedType for f32: the only element kind Dense can be built over
get_float_type == "Single"

size_of_T == get_width(get_float_type)

\* The absent value of an optional record (no handle, no iterator, no item)
None == [none |-> TRUE]

Dims == 0..MaxDim
Word == 2 ^ WordBits
\* Element values the caller writes, and the byte values a pre-existing file
\* is filled with
Vals == {0, 1}
Builds == {"debug", "release"}

Max(a, b) == IF a > b THEN a ELSE b


(***************************************************************************)
(* u64 arithmetic.  An operation yields the wrapped value and whether the   *)
(* exact result left the word: a debug build (overflow checks on) panics    *)
(* there, a release build continues with the wrapped value.                 *)
(***************************************************************************)
WMul(a, b) == [val |-> (a * b) % Word, ovf |-> a * b >= Word]

WAdd(a, b) == [val |-> (a + b) % Word, ovf |-> a + b >= Word]

\* HEADER_SIZE as u64 + rows * cols * width      (u64, left to right)
compute_length(rows, cols, width) ==
    LET rc  == WMul(rows, cols)
        rcw == WMul(rc.val, width)
        sum == WAdd(HEADER_SIZE, rcw.val)
    IN  [val |-> sum.val, ovf |-> rc.ovf \/ rcw.ovf \/ sum.ovf]

\* Dense::compute_length: width is mem::size_of::<T>()
DenseComputeLength(rows, cols) == compute_length(rows, cols, size_of_T)

\* DiskMatrix::compute_length: width is repr.get_width()
DiskComputeLength(rows, cols, repr) == compute_length(rows, cols, get_width(repr))

(***************************************************************************)
(* State.                                                                   *)
(***************************************************************************)
VARIABLES
    pc,         \* "init" | "live" | "failed" | "panicked" | "dropped"
    build,      \* "debug" | "release": whether integer overflow panics or wraps
    file,       \* the path: [exists, len], len in bytes
    hdr,        \* MatrixHeader: bytes 0..63 of the file, seen through the mapping
    installed,  \* the header fields create has assigned
    data,       \* the file's bytes from offset 64 on, a sequence of byte values
    handle,     \* None, or the Dense / DiskMatrix value: [kind, start]
    mapping,    \* the process's mapping: [live, start, len]
    sys,        \* system calls so far: set_len, mmap and munmap calls made, mmap
                \* calls that succeeded (maps), the length given to munmap
    err,        \* what create returned: "none" | "ok" | "io" | "map"
    args,       \* the arguments create was called with: [kind, rows, cols, repr]
    hist,       \* the header as it stood after create and after each transpose
    iter,       \* None, or the live iterator: [mut, gen, done, extra]
    item,       \* None, or what the last next() yielded: [idx, row, col, val]
    yielded,    \* (row, col) reported after each element the live iterator yielded
    lastWrite,  \* None, or the latest element write: [row, col, val]
    rand,       \* None, or the offsets the last randomise() assigned, in order
    used        \* operations made on the handle so far

vars == <<pc, build, file, hdr, installed, data, handle, mapping, sys, err, args, hist,
          iter, item, yielded, lastWrite, rand, used>>

\* Lengths of the file that may already be at the path
PriorLens == {0, 72, 200}

\* Start address mmap returns (page aligned, not null)
MapStart == 4096

\* A file left at the path by an earlier program: len bytes, each equal to fill
PriorHeader(len, fill) ==
    LET b == IF len >= HEADER_SIZE THEN fill ELSE 0
    IN  [magic          |-> IF len >= 8 THEN fill ELSE 0,
         num_rows       |-> b,
         num_cols       |-> b,
         representation |-> IF b % 2 = 1 THEN "Double" ELSE "Single",
         lda            |-> b,
         transposed     |-> b % 2 = 1]

PriorData(len, fill) == [i \in 1..Max(len - HEADER_SIZE, 0) |-> fill]

Init ==
    /\ pc = "init"
    /\ build \in Builds
    /\ \/ /\ file = [exists |-> FALSE, len |-> 0]
          /\ hdr = PriorHeader(0, 0)
          /\ data = <<>>
       \/ \E len \in PriorLens, fill \in Vals :
            /\ len = 0 => fill = 0
            /\ file = [exists |-> TRUE, len |-> len]
            /\ hdr = PriorHeader(len, fill)
            /\ data = PriorData(len, fill)
    /\ handle = None
    /\ mapping = [live |-> FALSE, start |-> 0, len |-> 0]
    /\ installed = {}
    /\ sys = [set_len |-> 0, mmap |-> 0, maps |-> 0, munmap |-> 0, unmapLen |-> 0,
              failed |-> "none"]
    /\ err = "none"
    /\ args = None
    /\ hist = <<>>
    /\ iter = None
    /\ item = None
    /\ yielded = <<>>
    /\ lastWrite = None
    /\ rand = None
    /\ used = 0

(***************************************************************************)
(* File and mapping system calls.                                           *)
(***************************************************************************)
\* OpenOptions::new().read(true).write(true).create(true).open(path):
\* creates an empty file if none exists; never truncates an existing one
OpenCreate(f) == [exists |-> TRUE, len |-> IF f.exists THEN f.len ELSE 0]

\* set_len that grows a file but never shrinks one
SetLenFileGrowOnly(f, n) == [exists |-> TRUE, len |-> Max(f.len, n)]

\* File::set_len (ftruncate): the file becomes exactly n bytes; bytes kept up
\* to the old length, zeros beyond it
SetLenFile(f, n) == [exists |-> TRUE, len |-> n]

SetLenData(d, n) ==
    [i \in 1..Max(n - HEADER_SIZE, 0) |-> IF i <= Len(d) THEN d[i] ELSE 0]

SetLenHeader(h, oldLen, n) ==
    IF oldLen >= HEADER_SIZE /\ n >= HEADER_SIZE THEN h
    ELSE [PriorHeader(0, 0) EXCEPT !.magic = IF oldLen >= 8 /\ n >= 8 THEN h.magic ELSE 0]

\* mmap(null, len, PROT_READ|PROT_WRITE, MAP_SHARED, fd, 0): EINVAL for len = 0,
\* otherwise it may still fail (address space, limits)
MmapOutcomes(len) == IF len = 0 THEN {FALSE} ELSE BOOLEAN

(***************************************************************************)
(* create (Dense::create and DiskMatrix::create share one body).            *)
(***************************************************************************)
\* The header fields create assigns, in the code's order; magic is not among them
CreatedFields == {"num_rows", "num_cols", "representation", "transposed", "lda"}

\* lda in bytes computed with the single-precision width whatever the tag
CreateLdaSingleWidth(kind, cols, repr) ==
    IF kind = "Dense" THEN [val |-> cols, ovf |-> FALSE]
    ELSE WMul(cols, get_width("Single"))

\* header.lda: cols (elements) for Dense, cols * width (bytes) for DiskMatrix
CreateLda(kind, cols, repr) ==
    IF kind = "Dense" THEN [val |-> cols, ovf |-> FALSE]
    ELSE WMul(cols, get_width(repr))

\* header.representation: T::get_float_type() for Dense, the argument for DiskMatrix
CreateRepresentation(kind, repr) == IF kind = "Dense" THEN get_float_type ELSE repr

CreateLength(kind, rows, cols, repr) ==
    IF kind = "Dense" THEN DenseComputeLength(rows, cols)
    ELSE DiskComputeLength(rows, cols, repr)

\* The block that installs the header through get_header_mut()
InstallHeader(h, kind, rows, cols, repr) ==
    [h EXCEPT !.num_rows       = rows,
              !.num_cols       = cols,
              !.representation = CreateRepresentation(kind, repr),
              !.transposed     = FALSE,
              !.lda            = CreateLda(kind, cols, repr).val]

\* create reports every failure as an I/O error
CreateEndsAlwaysIo(p, e) ==
    /\ pc' = p
    /\ err' = "io"
    /\ UNCHANGED <<build, installed, handle, mapping, hist, iter, item, yielded,
                   lastWrite, rand, used>>

\* create returns (or panics) without a handle and without a mapping
CreateEnds(p, e) ==
    /\ pc' = p
    /\ err' = e
    /\ UNCHANGED <<build, installed, handle, mapping, hist, iter, item, yielded,
                   lastWrite, rand, used>>

create(kind, rows, cols, repr) ==
    /\ pc = "init"
    /\ args' = [kind |-> kind, rows |-> rows, cols |-> cols, repr |-> repr]
    /\ LET len    == CreateLength(kind, rows, cols, repr)
           opened == OpenCreate(file)
           lda    == CreateLda(kind, cols, repr)
           sized  == SetLenHeader(hdr, opened.len, len.val)
           newHdr == InstallHeader(sized, kind, rows, cols, repr)
       IN  \E openOk, setLenOk \in BOOLEAN, mmapOk \in MmapOutcomes(len.val) :
             \/ \* open(path)? fails
                /\ ~openOk
                /\ CreateEnds("failed", "io")
                /\ sys' = [sys EXCEPT !.failed = "open"]
                /\ UNCHANGED <<file, hdr, data>>
             \/ \* compute_length overflows with overflow checks on
                /\ openOk /\ len.ovf /\ build = "debug"
                /\ CreateEnds("panicked", "none")
                /\ file' = opened
                /\ UNCHANGED <<hdr, data, sys>>
             \/ \* file.set_len(len)? fails
                /\ openOk /\ ~(len.ovf /\ build = "debug") /\ ~setLenOk
                /\ CreateEnds("failed", "io")
                /\ file' = opened
                /\ sys' = [sys EXCEPT !.set_len = @ + 1, !.failed = "set_len"]
                /\ UNCHANGED <<hdr, data>>
             \/ \* mmap(..)? fails
                /\ openOk /\ ~(len.ovf /\ build = "debug") /\ setLenOk /\ ~mmapOk
                /\ CreateEnds("failed", "map")
                /\ file' = SetLenFile(opened, len.val)
                /\ data' = SetLenData(data, len.val)
                /\ hdr' = sized
                /\ sys' = [sys EXCEPT !.set_len = @ + 1, !.mmap = @ + 1,
                                      !.failed = "mmap"]
             \/ \* mapped: the handle is built and the header installed
                /\ openOk /\ ~(len.ovf /\ build = "debug") /\ setLenOk /\ mmapOk
                /\ file' = SetLenFile(opened, len.val)
                /\ data' = SetLenData(data, len.val)
                /\ hdr' = newHdr
                /\ installed' = CreatedFields
                /\ hist' = <<newHdr>>
                /\ IF lda.ovf /\ build = "debug"
                   THEN \* cols * width panics: the handle is dropped while unwinding
                        /\ pc' = "panicked"
                        /\ err' = "none"
                        /\ handle' = None
                        /\ mapping' = [live |-> FALSE, start |-> MapStart, len |-> len.val]
                        /\ sys' = [sys EXCEPT !.set_len = @ + 1, !.mmap = @ + 1,
                                              !.maps = @ + 1, !.munmap = @ + 1,
                                              !.unmapLen = len.val]
                   ELSE /\ pc' = "live"
                        /\ err' = "ok"
                        /\ handle' = [kind |-> kind, start |-> MapStart]
                        /\ mapping' = [live |-> TRUE, start |-> MapStart, len |-> len.val]
                        /\ sys' = [sys EXCEPT !.set_len = @ + 1, !.mmap = @ + 1,
                                              !.maps = @ + 1]
                /\ UNCHANGED <<build, iter, item, yielded, lastWrite, rand, used>>

\* The least dimension d whose d * 1 * size_of::<f32>() no longer fits the word
LargeDim == Word \div size_of_T

\* Vectors too long for the length computation
LargeShapes == {<<LargeDim, 1>>, <<1, LargeDim>>}

\* Dense::<f32>::create(path, rows, cols)
DenseCreate == \E rows \in Dims, cols \in Dims : create("Dense", rows, cols, get_float_type)

\* Dense::<f32>::create(path, rows, cols) with rows * cols * 4 beyond the word
DenseCreateLarge ==
    \E shape \in LargeShapes : create("Dense", shape[1], shape[2], get_float_type)

\* DiskMatrix::create(path, rows, cols, representation)
DiskCreate ==
    \E rows \in Dims, cols \in Dims, repr \in FloatTypes : create("Disk", rows, cols, repr)

(***************************************************************************)
(* Drop: recompute the length from the header and unmap.                    *)
(***************************************************************************)
\* The length Drop passes to munmap
DropLength(kind, h) ==
    IF kind = "Dense" THEN DenseComputeLength(h.num_rows, h.num_cols)
    ELSE DiskComputeLength(h.num_rows, h.num_cols, h.representation)

\* munmap(start, len): EINVAL for len = 0; otherwise the call may still fail
MunmapOutcomes(len) == IF len = 0 THEN {FALSE} ELSE BOOLEAN

\* A teardown that forgets the mapping
DropWithoutMunmap ==
    /\ pc = "live"
    /\ iter = None
    /\ pc' = "dropped"
    /\ handle' = None
    /\ UNCHANGED <<build, file, hdr, installed, data, mapping, sys, err, args, hist,
                   iter, item, yielded, lastWrite, rand, used>>

\* A teardown that swallows the error of munmap
DropIgnoresError ==
    /\ pc = "live"
    /\ iter = None
    /\ LET length == DropLength(handle.kind, hdr)
       IN  IF length.ovf /\ build = "debug"
           THEN /\ pc' = "panicked"
                /\ UNCHANGED <<mapping, sys>>
           ELSE \E ok \in MunmapOutcomes(length.val) :
                  /\ sys' = [sys EXCEPT !.munmap = @ + 1, !.unmapLen = length.val,
                                        !.failed = IF ok THEN @ ELSE "munmap"]
                  /\ mapping' = [mapping EXCEPT !.live = IF ok THEN FALSE ELSE @]
                  /\ pc' = "dropped"
    /\ handle' = None
    /\ UNCHANGED <<build, file, hdr, installed, data, err, args, hist, iter, item,
                   yielded, lastWrite, rand, used>>

Drop ==
    /\ pc = "live"
    /\ iter = None
    /\ LET length == DropLength(handle.kind, hdr)
       IN  IF length.ovf /\ build = "debug"
           THEN /\ pc' = "panicked"
                /\ UNCHANGED <<mapping, sys>>
           ELSE \E ok \in MunmapOutcomes(length.val) :
                  /\ sys' = [sys EXCEPT !.munmap = @ + 1, !.unmapLen = length.val,
                                        !.failed = IF ok THEN @ ELSE "munmap"]
                  /\ mapping' = [mapping EXCEPT !.live = IF ok THEN FALSE ELSE @]
                  \* .unwrap(): a failed munmap panics
                  /\ pc' = IF ok THEN "dropped" ELSE "panicked"
    /\ handle' = None
    /\ UNCHANGED <<build, file, hdr, installed, data, err, args, hist, iter, item,
                   yielded, lastWrite, rand, used>>

(***************************************************************************)
(* Dense: transpose.                                                        *)
(***************************************************************************)
\* transposed |= true in place of ^= true
TransposeHeaderSetsFlag(h) ==
    [h EXCEPT !.transposed = TRUE,
              !.num_rows   = h.num_cols,
              !.num_cols   = h.num_rows]

\* num_rows = num_cols; num_cols = num_rows in place of a swap
TransposeHeaderCopies(h) ==
    [h EXCEPT !.transposed = ~h.transposed,
              !.num_rows   = h.num_cols,
              !.num_cols   = h.num_cols]

\* A transpose that also resets the stride to the new minor extent
TransposeHeaderResetsLda(h) ==
    [h EXCEPT !.transposed = ~h.transposed,
              !.num_rows   = h.num_cols,
              !.num_cols   = h.num_rows,
              !.lda        = h.num_rows]

\* header.transposed ^= true; mem::swap(&mut header.num_rows, &mut header.num_cols)
TransposeHeader(h) ==
    [h EXCEPT !.transposed = ~h.transposed,
              !.num_rows   = h.num_cols,
              !.num_cols   = h.num_rows]

transpose ==
    /\ pc = "live"
    /\ handle.kind = "Dense"
    /\ iter = None
    /\ used < MaxOps
    /\ hdr' = TransposeHeader(hdr)
    /\ hist' = Append(hist, hdr')
    /\ lastWrite' = None
    /\ used' = used + 1
    /\ UNCHANGED <<pc, build, file, installed, data, handle, mapping, sys, err, args,
                   iter, item, yielded, rand>>

(***************************************************************************)
(* ElementIterCommon: the strided index generator.                          *)
(***************************************************************************)
\* A generator that takes the header's dimensions as they are, transposed or not
GeneratorWithoutSwap(h) ==
    [major_size   |-> h.num_rows,
     minor_size   |-> h.num_cols,
     major_index  |-> 0,
     major_offset |-> 0,
     minor_offset |-> 0,
     lda          |-> h.lda,
     transposed   |-> h.transposed]

create_index_generator(h) ==
    [major_size   |-> IF h.transposed THEN h.num_cols ELSE h.num_rows,
     minor_size   |-> IF h.transposed THEN h.num_rows ELSE h.num_cols,
     major_index  |-> 0,
     major_offset |-> 0,
     minor_offset |-> 0,
     lda          |-> h.lda,
     transposed   |-> h.transposed]

\* A step that starts the traversal over once it has run off the end
AdvanceRestarts(g) ==
    IF g.major_index >= g.major_size
    THEN [g EXCEPT !.minor_offset = 0, !.major_index = 0, !.major_offset = 0]
    ELSE IF g.minor_offset + 1 < g.minor_size
         THEN [g EXCEPT !.minor_offset = @ + 1]
         ELSE [g EXCEPT !.minor_offset = 0,
                        !.major_index  = @ + 1,
                        !.major_offset = @ + g.lda]

\* The generator after the step that next_index makes before it answers
Advance(g) ==
    IF g.minor_offset + 1 < g.minor_size
    THEN [g EXCEPT !.minor_offset = @ + 1]
    ELSE [g EXCEPT !.minor_offset = 0,
                   !.major_index  = @ + 1,
                   !.major_offset = @ + g.lda]

\* next_index: the generator afterwards, and whether it answers Some(idx)
next_index(g) ==
    LET n == Advance(g)
    IN  [gen  |-> n,
         some |-> n.major_index < n.major_size,
         idx  |-> n.major_offset + n.minor_offset]

get_row(g) == IF g.transposed THEN g.minor_offset ELSE g.major_index

get_col(g) == IF g.transposed THEN g.major_index ELSE g.minor_offset

\* What draining a generator yields: the offset and the (row, col) reported
\* after each element, up to the first None
RECURSIVE Drain(_)
Drain(g) ==
    LET r == next_index(g)
    IN  IF ~r.some THEN <<>>
        ELSE <<[idx |-> r.idx, row |-> get_row(r.gen), col |-> get_col(r.gen)]>>
             \o Drain(r.gen)

\* A fresh traversal of the matrix whose header is h
Traversal(h) == Drain(create_index_generator(h))

(***************************************************************************)
(* Element access through the data pointer (start + 64, as *mut T).         *)
(***************************************************************************)
\* Element idx lies inside the mapped file
InBounds(d, idx) == (idx + 1) * size_of_T <= Len(d)

\* The little-endian value of bytes b[from..from+n-1]
RECURSIVE Decode(_, _, _)
Decode(b, from, n) ==
    IF n = 0 THEN 0 ELSE b[from] + 256 * Decode(b, from + 1, n - 1)

Encode(v, n) == [i \in 1..n |-> (v \div (256 ^ (i - 1))) % 256]

\* *data.offset(idx)
Load(d, idx) == Decode(d, idx * size_of_T + 1, size_of_T)

\* *data.offset(idx) = v
Store(d, idx, v) ==
    [i \in 1..Len(d) |->
        IF i > idx * size_of_T /\ i <= (idx + 1) * size_of_T
        THEN Encode(v, size_of_T)[i - idx * size_of_T]
        ELSE d[i]]

(***************************************************************************)
(* Dense: element_iter, element_iter_mut and their next().  An iterator     *)
(* borrows the handle: while it lives there is no transpose, no other       *)
(* iterator and no drop.                                                    *)
(***************************************************************************)
NewIter(mut) ==
    /\ pc = "live"
    /\ handle.kind = "Dense"
    /\ iter = None
    /\ used < MaxOps
    /\ iter' = [mut |-> mut, gen |-> create_index_generator(hdr), done |-> FALSE,
                extra |-> 0]
    /\ item' = None
    /\ yielded' = <<>>
    /\ used' = used + 1
    /\ UNCHANGED <<pc, build, file, hdr, installed, data, handle, mapping, sys, err, args, hist,
                   lastWrite, rand>>

element_iter == NewIter(FALSE)

\* A mutable iterator built over the header's dimensions as they are
ElementIterMutWithoutSwap ==
    /\ pc = "live"
    /\ handle.kind = "Dense"
    /\ iter = None
    /\ used < MaxOps
    /\ iter' = [mut |-> TRUE, gen |-> GeneratorWithoutSwap(hdr), done |-> FALSE,
                extra |-> 0]
    /\ item' = None
    /\ yielded' = <<>>
    /\ used' = used + 1
    /\ UNCHANGED <<pc, build, file, hdr, installed, data, handle, mapping, sys, err,
                   args, hist, lastWrite, rand>>

element_iter_mut == NewIter(TRUE)

\* One call of next(); the caller of a read iterator reads the element it is
\* handed.  An offset outside the mapped file is undefined behaviour: the
\* read may see any value.
IterNext(mut) ==
    /\ iter # None
    /\ iter.mut = mut
    /\ iter.done => iter.extra < MaxExtraCalls
    /\ LET r == next_index(iter.gen)
       IN  IF ~r.some
           THEN /\ iter' = [iter EXCEPT !.gen = r.gen, !.done = TRUE,
                                        !.extra = IF iter.done THEN @ + 1 ELSE @]
                /\ item' = None
                /\ UNCHANGED yielded
           ELSE /\ iter' = [iter EXCEPT !.gen = r.gen]
                /\ LET at == [idx |-> r.idx, row |-> get_row(r.gen),
                              col |-> get_col(r.gen)]
                   IN  IF mut THEN item' = at
                       ELSE \E v \in IF InBounds(data, r.idx)
                                     THEN {Load(data, r.idx)} ELSE Vals :
                              item' = [idx |-> at.idx, row |-> at.row, col |-> at.col,
                                       val |-> v]
                /\ yielded' = Append(yielded, <<get_row(r.gen), get_col(r.gen)>>)
    /\ UNCHANGED <<pc, build, file, hdr, installed, data, handle, mapping, sys, err, args, hist,
                   lastWrite, rand, used>>

\* <ElementIter as Iterator>::next
ElementIterNext == IterNext(FALSE)

\* <ElementIterMut as Iterator>::next
ElementIterMutNext == IterNext(TRUE)

\* The caller assigns through the reference element_iter_mut yielded last.  A
\* write outside the mapped file does not reach the file.
Write ==
    /\ iter # None
    /\ iter.mut
    /\ item # None
    /\ used < MaxOps
    /\ \E v \in Vals :
         /\ data' = IF InBounds(data, item.idx) THEN Store(data, item.idx, v) ELSE data
         /\ lastWrite' = [row |-> item.row, col |-> item.col, val |-> v]
    /\ used' = used + 1
    /\ UNCHANGED <<pc, build, file, hdr, installed, handle, mapping, sys, err, args,
                   hist, iter, item, yielded, rand>>

\* The iterator goes out of scope
DropIter ==
    /\ iter # None
    /\ iter' = None
    /\ item' = None
    /\ yielded' = <<>>
    /\ UNCHANGED <<pc, build, file, hdr, installed, data, handle, mapping, sys, err, args, hist,
                   lastWrite, rand, used>>

(***************************************************************************)
(* Dense: randomise.                                                        *)
(***************************************************************************)
\* Seeds of the thread's random number generator
Seeds == {0, 1}

\* The k-th value rng.gen() draws from a generator seeded with seed
Gen(seed, k) == (seed + k) % 2

\* The data after the loop body *value = rng.gen() has run for positions
\* k..Len(t) of traversal t; an assignment outside the mapped file does not
\* reach the file
RECURSIVE AssignFrom(_, _, _, _)
AssignFrom(d, t, seed, k) ==
    IF k > Len(t) THEN d
    ELSE IF InBounds(d, t[k].idx)
         THEN AssignFrom(Store(d, t[k].idx, Gen(seed, k)), t, seed, k + 1)
         ELSE AssignFrom(d, t, seed, k + 1)

\* for value in self.element_iter_mut() { *value = rng.gen() }
randomise ==
    /\ pc = "live"
    /\ handle.kind = "Dense"
    /\ iter = None
    /\ used < MaxOps
    /\ LET t == Traversal(hdr)
       IN  /\ \E seed \in Seeds :
                /\ data' = AssignFrom(data, t, seed, 1)
                /\ lastWrite' = IF Len(t) = 0 THEN lastWrite
                                ELSE [row |-> t[Len(t)].row, col |-> t[Len(t)].col,
                                      val |-> Gen(seed, Len(t))]
           /\ rand' = [assigned |-> [k \in 1..Len(t) |-> t[k].idx]]
    /\ used' = used + 1
    /\ UNCHANGED <<pc, build, file, hdr, installed, handle, mapping, sys, err, args,
                   hist, iter, item, yielded>>

Next ==
    \/ DenseCreate
    \/ DiskCreate
    \/ transpose
    \/ element_iter
    \/ element_iter_mut
    \/ ElementIterNext
    \/ ElementIterMutNext
    \/ Write
    \/ DropIter
    \/ randomise
    \/ Drop

Spec == Init /\ [][Next]_vars

\* The same program run on matrices whose length computation overflows
NextOverflow ==
    \/ DenseCreateLarge
    \/ Drop
    \/ transpose
    \/ element_iter
    \/ element_iter_mut
    \/ ElementIterNext
    \/ ElementIterMutNext
    \/ Write
    \/ DropIter
    \/ randomise

SpecOverflow == Init /\ [][NextOverflow]_vars

(***************************************************************************)
(* Properties.                                                              *)
(***************************************************************************)
\* The width of the elements of the matrix create was asked for
ArgWidth == IF args.kind = "Dense" THEN size_of_T ELSE get_width(args.repr)

\* The exact (unbounded) length header + rows * cols * width
ExactLength == HEADER_SIZE + args.rows * args.cols * ArgWidth

\* The rectangle {0..R-1} x {0..C-1}
Rectangle(R, C) == {<<r, c>> : r \in 0..(R - 1), c \in 0..(C - 1)}

\* C1: when a fresh iterator over an R x C matrix has been drained to its first
\* None, it has yielded exactly R*C elements and the (row, col) pairs reported
\* are the rectangle {0..R-1} x {0..C-1}, each once.
C1_TraversalVisitsRectangleOnce ==
    (iter # None /\ iter.done) =>
        /\ Len(yielded) = hdr.num_rows * hdr.num_cols
        /\ {yielded[i] : i \in 1..Len(yielded)} = Rectangle(hdr.num_rows, hdr.num_cols)
        /\ \A i, j \in 1..Len(yielded) : yielded[i] = yielded[j] => i = j

\* C2: when the length computation does not overflow, a successful create
\* leaves the file exactly 64 + rows*cols*width bytes long, whatever its length
\* was before.
C2_CreateSetsExactLength ==
    (err = "ok" /\ ExactLength < Word) => file.len = ExactLength

\* C2 witness: a 2 x 3 Dense matrix was created over a longer file (its last
\* data byte is still the old file's), and the file is now 88 bytes long.
C2_Witness ==
    /\ err = "ok"
    /\ args.kind = "Dense" /\ args.rows = 2 /\ args.cols = 3
    /\ ExactLength < Word
    /\ Len(data) = 24 /\ data[24] = 1
    /\ file.len = 88

\* C3: two transpose() calls restore num_rows, num_cols and the transposed
\* flag, and a fresh traversal then emits the same offsets with the same
\* (row, col) as a fresh traversal before the two calls.
C3_TransposeTwiceRestores ==
    \A i \in 1..(Len(hist) - 2) :
        /\ hist[i + 2].num_rows = hist[i].num_rows
        /\ hist[i + 2].num_cols = hist[i].num_cols
        /\ hist[i + 2].transposed = hist[i].transposed
        /\ Traversal(hist[i + 2]) = Traversal(hist[i])

\* C3 witness: a 2 x 3 matrix has been transposed twice.
C3_Witness ==
    /\ pc = "live"
    /\ Len(hist) = 3
    /\ args.rows = 2 /\ args.cols = 3
    /\ Len(Traversal(hdr)) > 1

\* A traversal with the reported row and col exchanged at every position
SwapCoords(t) == [k \in 1..Len(t) |-> [idx |-> t[k].idx, row |-> t[k].col, col |-> t[k].row]]

\* In traversal t the row index varies fastest
RowVariesFastest(t) ==
    \A k \in 1..(Len(t) - 1) :
        \/ t[k + 1].col = t[k].col /\ t[k + 1].row = t[k].row + 1
        \/ t[k + 1].col = t[k].col + 1 /\ t[k + 1].row = 0

\* C4: after one transpose() of a matrix created R x C, num_rows = C and
\* num_cols = R, and a fresh traversal emits the same offsets in the same order
\* as before the transpose, each with the (row, col) reported before exchanged;
\* the row index varies fastest.
C4_TransposeSwapsCoordinates ==
    Len(hist) >= 2 =>
        /\ hist[2].num_rows = args.cols
        /\ hist[2].num_cols = args.rows
        /\ Traversal(hist[2]) = SwapCoords(Traversal(hist[1]))
        /\ RowVariesFastest(Traversal(hist[2]))

\* C4 witness: a 2 x 3 matrix has been transposed once; its traversal has
\* several positions in more than one column.
C4_Witness ==
    /\ pc = "live"
    /\ Len(hist) = 2
    /\ args.rows = 2 /\ args.cols = 3
    /\ hdr.transposed
    /\ \E k \in 1..Len(Traversal(hdr)) : Traversal(hdr)[k].col = 1 /\ Traversal(hdr)[k].row = 2

\* C5: a value written through element_iter_mut at the position reported as
\* (r, c), with no later write or transpose, is the value a fresh element_iter
\* yields at the position it reports as (r, c).
C5_WriteThenReadRoundTrip ==
    (/\ iter # None
     /\ ~iter.mut
     /\ item # None
     /\ lastWrite # None
     /\ item.row = lastWrite.row
     /\ item.col = lastWrite.col) => item.val = lastWrite.val

\* C6: the length Drop gives to munmap is the length create gave to mmap.
C6_UnmapLengthIsMapLength ==
    sys.munmap > 0 => sys.unmapLen = mapping.len

\* C6 witness: a 2 x 3 matrix was transposed once and then dropped.
C6_Witness ==
    /\ pc = "dropped"
    /\ sys.munmap = 1
    /\ Len(hist) = 2
    /\ args.rows = 2 /\ args.cols = 3
    /\ sys.unmapLen = 88

\* C7: munmap is called exactly once on each mapping mmap established: never
\* before the handle's scope ends, once when it has ended, never twice; a
\* create that failed leaves no mapping.
C7_EachMappingUnmappedOnce ==
    /\ sys.maps <= 1
    /\ sys.munmap <= sys.maps
    /\ pc \in {"init", "failed"} => sys.maps = 0 /\ ~mapping.live
    /\ pc = "live" => sys.maps = 1 /\ sys.munmap = 0 /\ mapping.live
    /\ pc \in {"dropped", "panicked"} => sys.munmap = sys.maps
    /\ pc = "dropped" => sys.maps = 1 /\ ~mapping.live

\* C7 witness: a handle was created, used and dropped; its mapping is gone.
C7_Witness ==
    /\ pc = "dropped"
    /\ sys.maps = 1 /\ sys.munmap = 1
    /\ ~mapping.live
    /\ used > 0

\* C8: after a successful create the magic field has been written by create.
C8_CreateWritesMagic ==
    err = "ok" => "magic" \in installed

\* C9: after a successful create every byte of the data region is zero.
C9_DataRegionZeroAfterCreate ==
    (pc = "live" /\ used = 0) => \A i \in 1..Len(data) : data[i] = 0

C11_TransposeChangesOnlyOrientation ==
    [][(Len(hist) >= 1 /\ Len(hist') = Len(hist) + 1) =>
          /\ hdr'.transposed = ~hdr.transposed
          /\ hdr'.num_rows = hdr.num_cols
          /\ hdr'.num_cols = hdr.num_rows
          /\ hdr'.lda = hdr.lda
          /\ hdr'.representation = hdr.representation
          /\ hdr'.magic = hdr.magic
          /\ data' = data
          /\ handle' = handle
          /\ mapping' = mapping
          /\ file' = file]_vars

\* C11 witness: a 2 x 3 matrix with non-zero magic and data bytes has been
\* transposed.
C11_Witness ==
    /\ pc = "live"
    /\ Len(hist) = 2
    /\ args.rows = 2 /\ args.cols = 3
    /\ hdr.magic # 0
    /\ hdr.lda = 3
    /\ \E i \in 1..Len(data) : data[i] # 0

\* C12: element_iter and element_iter_mut step through the same sequence: the
\* k-th element either of them yields has the offset and the (row, col) of the
\* k-th position of the one traversal of the matrix, and either is exhausted
\* after as many steps as that traversal has.
C12_IteratorsStepAlike ==
    iter # None =>
        LET t == Traversal(hdr)
            k == Len(yielded)
        IN  /\ k <= Len(t)
            /\ item # None =>
                 /\ k >= 1
                 /\ item.idx = t[k].idx
                 /\ item.row = t[k].row
                 /\ item.col = t[k].col
            /\ iter.done => k = Len(t)
            /\ \A j \in 1..k : yielded[j] = <<t[j].row, t[j].col>>

\* C12 witness: a mutable iterator over a transposed 2 x 3 matrix has been
\* drained after five steps.
C12_Witness ==
    /\ iter # None
    /\ iter.mut
    /\ iter.done
    /\ hdr.transposed
    /\ args.rows = 2 /\ args.cols = 3
    /\ Len(yielded) = 5

\* C13: after randomise() on an R x C matrix every one of the R*C elements of
\* the data region has been assigned by it, each exactly once.
C13_RandomiseAssignsEveryElement ==
    rand # None =>
        LET n == hdr.num_rows * hdr.num_cols
        IN  /\ Len(rand.assigned) = n
            /\ {rand.assigned[k] : k \in 1..Len(rand.assigned)} = 0..(n - 1)

\* C14: a failed open or set_len makes create return that I/O error, a failed
\* mmap the mapping error; in each case there is no handle, no mapping, no
\* header field written, and no later step of create was attempted (a failed
\* open or set_len leaves the file's bytes as they were; a failed mmap leaves
\* them as set_len made them).
C14_CreateFailuresAreReported ==
    /\ [](/\ sys.failed = "open" =>
                pc = "failed" /\ err = "io" /\ sys.set_len = 0 /\ sys.mmap = 0
          /\ sys.failed = "set_len" =>
                pc = "failed" /\ err = "io" /\ sys.set_len = 1 /\ sys.mmap = 0
          /\ sys.failed = "mmap" =>
                pc = "failed" /\ err = "map" /\ sys.set_len = 1 /\ sys.mmap = 1
          /\ pc = "failed" =>
                /\ sys.failed \in {"open", "set_len", "mmap"}
                /\ handle = None /\ installed = {} /\ hist = <<>>
                /\ sys.maps = 0 /\ ~mapping.live)
    /\ [][(pc = "init" /\ pc' = "failed") =>
            /\ sys'.failed \in {"open", "set_len"} => hdr' = hdr /\ data' = data
            /\ sys'.failed = "mmap" =>
                  /\ hdr' = SetLenHeader(hdr, file.len, file'.len)
                  /\ data' = SetLenData(data, file'.len)]_vars

\* C14 witness: mmap failed after set_len had made the file 88 bytes long;
\* create returned the mapping error.
C14_Witness ==
    /\ pc = "failed" /\ sys.failed = "mmap" /\ err = "map"
    /\ args.kind = "Dense" /\ args.rows = 2 /\ args.cols = 3
    /\ file.len = 88

\* C15: when 64 + rows*cols*width does not fit the word, create returns an
\* error to the caller and neither resizes nor maps the file (checked under
\* SpecOverflow, where every create overflows).
C15_OverflowIsReported ==
    (pc # "init" /\ ExactLength >= Word) =>
        /\ pc = "failed"
        /\ err \in {"io", "map"}
        /\ sys.set_len = 0
        /\ sys.mmap = 0

\* C16: a munmap that fails at teardown ends in a panic, and a teardown that
\* ended normally made one munmap call, which succeeded.
C16_MunmapFailureIsFatal ==
    /\ sys.failed = "munmap" => pc = "panicked" /\ handle = None
    /\ pc = "dropped" => sys.munmap = 1 /\ sys.failed = "none"

\* C16 witness: munmap of a 2 x 3 matrix's 88 bytes failed and teardown panicked.
C16_Witness ==
    /\ pc = "panicked" /\ sys.failed = "munmap"
    /\ sys.munmap = 1 /\ sys.unmapLen = 88 /\ mapping.live

\* C17: every offset a traversal emits is below rows*cols and addresses an
\* element of the mapped data region.
C17_EmittedOffsetsInDataRegion ==
    item # None =>
        /\ item.idx < hdr.num_rows * hdr.num_cols
        /\ InBounds(data, item.idx)

\* C18: the coordinates reported with every yielded element lie within the
\* matrix's current logical dimensions.
C18_CoordinatesWithinDimensions ==
    item # None => item.row < hdr.num_rows /\ item.col < hdr.num_cols

\* C19: a generator answers Some at most major_size * max(minor_size, 1) times
\* before it answers None, and once it has answered None every later call
\* answers None.
C19_ExhaustionIsPermanent ==
    /\ [](iter # None =>
            Len(yielded) <= iter.gen.major_size * Max(iter.gen.minor_size, 1))
    /\ [][(iter # None /\ iter.done /\ iter' # None) =>
            (item' = None /\ iter'.done /\ yielded' = yielded)]_vars

\* C19 witness: an iterator over a 2 x 3 matrix answered None after five
\* elements and was called once more.
C19_Witness ==
    /\ iter # None /\ iter.done /\ iter.extra >= 1
    /\ item = None
    /\ args.rows = 2 /\ args.cols = 3 /\ Len(yielded) = 5

\* C20: major_offset = major_index * lda in every generator state, and at
\* every emitted offset minor_offset < minor_size and the offset is
\* major_index * lda + minor_offset = P * lda + Q for the reported (row, col)
\* = (P, Q), or (Q, P) when transposed.
C20_OffsetAddressesReportedCell ==
    iter # None =>
        LET g == iter.gen
            P == IF g.transposed THEN item.col ELSE item.row
            Q == IF g.transposed THEN item.row ELSE item.col
        IN  /\ g.major_offset = g.major_index * g.lda
            /\ item # None =>
                  /\ g.minor_offset < g.minor_size
                  /\ item.idx = g.major_index * g.lda + g.minor_offset
                  /\ item.idx = P * g.lda + Q

=============================================================================
